---- MODULE Spec2Model ----
(***************************************************************************)
(* A model of scripts/utils.py of ricoshacl: the Ontology query surface    *)
(* (classes, properties, restrictions) over an RDF graph, and the Shacl    *)
(* generator that derives one sh:NodeShape per ontology class.             *)
(*                                                                         *)
(* Terms.  An RDF term is a record: [uri |-> s] for a URIRef, [bnode |-> n]*)
(* for a blank node, [lit |-> v] for an integer Literal, and None for      *)
(* Python's None.  The string s of a URIRef is a sequence of tokens: the   *)
(* first token stands for scheme and authority together ("S" for           *)
(* http://ex, "O" for http://other), every further token is one character. *)
(* A graph is a set of triples <<s, p, o>>.                                *)
(***************************************************************************)
EXTENDS Integers, Sequences, FiniteSets, TLC

VARIABLES graph, out, nextB, todo, pc, ret, prev

vars == <<graph, out, nextB, todo, pc, ret, prev>>

(* ------------------------------ bounds -------------------------------- *)

\* longest URI tail (characters after the authority) given to compute_shape_uri
MaxTail == 4
\* largest qualified cardinality value that occurs in an ontology
MaxCard == 1

(* ------------------------------- terms -------------------------------- *)

URIRef(s) == [uri |-> s]
BNode(n) == [bnode |-> n]
Literal(v) == [lit |-> v]
None == [none |-> TRUE]

IsBNode(x) == DOMAIN x = {"bnode"}
IsURIRef(x) == DOMAIN x = {"uri"}
IsLiteral(x) == DOMAIN x = {"lit"}

\* str(term) for a URIRef
Str(x) == x.uri

\* Python truthiness of the values the code tests with `if x:` / all() / any():
\* None is false, a URIRef is false only when empty, a Literal is false when
\* its value is (rdflib Literal.__bool__), a blank node is true.
Truthy(x) ==
    IF x = None THEN FALSE
    ELSE IF IsURIRef(x) THEN Len(x.uri) > 0
    ELSE IF IsLiteral(x) THEN x.lit # 0
    ELSE TRUE

\* str.startswith
StartsWith(s, prefix) ==
    /\ Len(prefix) <= Len(s)
    /\ \A i \in 1..Len(prefix) : s[i] = prefix[i]

(* ----------------------------- vocabulary ----------------------------- *)

RDF_type == URIRef(<<"rdf:type">>)
RDF_first == URIRef(<<"rdf:first">>)
RDF_rest == URIRef(<<"rdf:rest">>)
RDF_nil == URIRef(<<"rdf:nil">>)
RDFS_domain == URIRef(<<"rdfs:domain">>)
RDFS_range == URIRef(<<"rdfs:range">>)
RDFS_subClassOf == URIRef(<<"rdfs:subClassOf">>)
RDFS_isDefinedBy == URIRef(<<"rdfs:isDefinedBy">>)
OWL_Class == URIRef(<<"owl:Class">>)
OWL_Ontology == URIRef(<<"owl:Ontology">>)
OWL_Restriction == URIRef(<<"owl:Restriction">>)
OWL_onClass == URIRef(<<"owl:onClass">>)
OWL_onProperty == URIRef(<<"owl:onProperty">>)
OWL_unionOf == URIRef(<<"owl:unionOf">>)
OWL_minQualifiedCardinality == URIRef(<<"owl:minQualifiedCardinality">>)
OWL_maxQualifiedCardinality == URIRef(<<"owl:maxQualifiedCardinality">>)
OWL_versionIRI == URIRef(<<"owl:versionIRI">>)
OWL_versionInfo == URIRef(<<"owl:versionInfo">>)
SDO_creator == URIRef(<<"sdo:creator">>)
SDO_dateCreated == URIRef(<<"sdo:dateCreated">>)
SDO_dateModified == URIRef(<<"sdo:dateModified">>)
SDO_description == URIRef(<<"sdo:description">>)
SDO_name == URIRef(<<"sdo:name">>)
SDO_publisher == URIRef(<<"sdo:publisher">>)
SH_NodeShape == URIRef(<<"sh:NodeShape">>)
SH_targetClass == URIRef(<<"sh:targetClass">>)
SH_property == URIRef(<<"sh:property">>)
SH_path == URIRef(<<"sh:path">>)
SH_class == URIRef(<<"sh:class">>)
SH_or == URIRef(<<"sh:or">>)
SH_minCount == URIRef(<<"sh:minCount">>)
SH_maxCount == URIRef(<<"sh:maxCount">>)

(* --------------------------- graph queries ---------------------------- *)

\* Graph.subjects(predicate, object)
Subjects(g, p, o) == {t[1] : t \in {u \in g : u[2] = p /\ u[3] = o}}

\* Graph.objects(subject, predicate)
Objects(g, s, p) == {t[3] : t \in {u \in g : u[1] = s /\ u[2] = p}}

\* Graph.value(subject, predicate, None): an object of the pattern, None when
\* there is none.  Every graph here gives the predicates read this way at most
\* one object per subject, so the value is determined.
Value(g, s, p) ==
    IF Objects(g, s, p) = {} THEN None ELSE CHOOSE o \in Objects(g, s, p) : TRUE

\* Graph.items(list), as tuple(Collection(graph, list)) enumerates it: follow
\* rdf:rest from the head, yielding each rdf:first that is present; `chain`
\* holds the nodes already visited, where rdflib raises on a cycle.
Yield(item) == IF item # None THEN <<item>> ELSE <<>>
RECURSIVE Items(_, _, _)
Items(g, list, chain) ==
    IF ~Truthy(list) \/ list \in chain THEN <<>>
    ELSE Yield(Value(g, list, RDF_first))
         \o Items(g, Value(g, list, RDF_rest), chain \cup {list})

\* the orders in which a Python set can be iterated
Perms(S) ==
    {f \in [1..Cardinality(S) -> S] : \A i, j \in 1..Cardinality(S) : f[i] = f[j] => i = j}

(* ------------------------------ Ontology ------------------------------ *)

\* what a failed `assert` raises
AssertionError == [error |-> "AssertionError"]

\* Ontology.identifier: the namespace of the ontology, http://ex/
OntIdentifier == URIRef(<<"S", "/">>)

\* the assert that opens Ontology.classes: it passes unless both are given
ClassesAsserts(in_domain_of, in_range_of) ==
    ~(Truthy(in_domain_of) /\ Truthy(in_range_of))

\* classes() as it would be if in_domain_of read rdfs:domain: the classes
\* the property has as domain
classes_domain_read(g, in_domain_of, in_range_of) ==
    LET all_klasses ==
            {klass \in Subjects(g, RDF_type, OWL_Class) :
                 /\ ~IsBNode(klass)
                 /\ StartsWith(Str(klass), Str(OntIdentifier))}
    IN  IF Truthy(in_domain_of)
        THEN {klass \in Objects(g, in_domain_of, RDFS_domain) : klass \in all_klasses}
        ELSE IF Truthy(in_range_of)
        THEN {klass \in Objects(g, in_range_of, RDFS_range) : klass \in all_klasses}
        ELSE all_klasses

\* Ontology.classes(in_domain_of, in_range_of), once its assert has passed
classes(g, in_domain_of, in_range_of) ==
    LET all_klasses ==
            {klass \in Subjects(g, RDF_type, OWL_Class) :
                 /\ ~IsBNode(klass)
                 /\ StartsWith(Str(klass), Str(OntIdentifier))}
    IN  IF Truthy(in_domain_of)
        THEN {klass \in Objects(g, in_domain_of, RDFS_range) : klass \in all_klasses}
        ELSE IF Truthy(in_range_of)
        THEN {klass \in Objects(g, in_range_of, RDFS_range) : klass \in all_klasses}
        ELSE all_klasses

\* the asserts of Ontology.properties as they would be without the third one,
\* the membership of the given class in classes()
PropertiesAsserts_unchecked_class(g, with_domain, with_range) ==
    /\ ~(Truthy(with_domain) /\ Truthy(with_range))
    /\ Truthy(with_domain) \/ Truthy(with_range)

\* the three asserts of Ontology.properties: not both, at least one, and the
\* given class is one of classes()
PropertiesAsserts(g, with_domain, with_range) ==
    /\ ~(Truthy(with_domain) /\ Truthy(with_range))
    /\ Truthy(with_domain) \/ Truthy(with_range)
    /\ (IF Truthy(with_domain) THEN with_domain ELSE with_range)
           \in classes(g, None, None)

\* Ontology.properties(with_domain, with_range), once its asserts have passed
properties(g, with_domain, with_range) ==
    LET pred == IF Truthy(with_domain) THEN RDFS_domain ELSE RDFS_range
        obj == IF Truthy(with_domain) THEN with_domain ELSE with_range
    IN  {prop \in Subjects(g, pred, obj) :
             /\ ~IsBNode(prop)
             /\ StartsWith(Str(prop), Str(OntIdentifier))}

\* restriction_uris as it would be without the intersection with the
\* superclasses of for_klass
restriction_uris_unfiltered(g, for_klass) ==
    Subjects(g, RDF_type, OWL_Restriction)

\* the restriction nodes Ontology.restrictions(for_klass) iterates over
restriction_uris(g, for_klass) ==
    LET restriction_uris == Subjects(g, RDF_type, OWL_Restriction)
    IN  IF Truthy(for_klass)
        THEN restriction_uris \cap Objects(g, for_klass, RDFS_subClassOf)
        ELSE restriction_uris

\* the on_klass tuple restrictions() builds for one restriction node
OnKlass(g, restriction_uri) ==
    LET on_klass == Value(g, restriction_uri, OWL_onClass)
    IN  IF IsBNode(on_klass)
        THEN Items(g, Value(g, on_klass, OWL_unionOf), {})
        ELSE <<on_klass>>

\* the Restriction dataclass value restrictions() builds for one node
Restriction(g, restriction_uri) ==
    [on_klass |-> OnKlass(g, restriction_uri),
     on_property |-> Value(g, restriction_uri, OWL_onProperty),
     min_cardinality |-> Value(g, restriction_uri, OWL_minQualifiedCardinality),
     max_cardinality |-> Value(g, restriction_uri, OWL_maxQualifiedCardinality)]

\* Ontology.restrictions(for_klass), the nodes visited in the order `order`
restrictions(g, order) ==
    [i \in 1..Len(order) |-> Restriction(g, order[i])]

(* ------------------------- ontology documents ------------------------- *)
(* The graphs Ontology.__init__ loads.  Named terms:                       *)
(*   KA  http://ex/a      KB  http://ex/b#a     KC  http://ex/c            *)
(*   KO  http://other/a   (outside the namespace)   BK  a blank node       *)
(*   P1  http://ex/p      P2  http://ex/q       PO  http://other/p         *)
(*   R1, R2  restriction nodes (blank)                                     *)

KA == URIRef(<<"S", "/", "a">>)
KB == URIRef(<<"S", "/", "b", "#", "a">>)
KC == URIRef(<<"S", "/", "c">>)
KO == URIRef(<<"O", "/", "a">>)
BK == BNode(-9)
P1 == URIRef(<<"S", "/", "p">>)
P2 == URIRef(<<"S", "/", "q">>)
PO == URIRef(<<"O", "/", "p">>)
R1 == BNode(-1)
R2 == BNode(-2)

\* the blank node a restriction's owl:onClass points to, and its list cells
UnionNode(r) == BNode(10 * r.bnode)
ListNode(r, i) == BNode(10 * r.bnode - i)

\* an RDF list of `items` hanging off restriction node r (rdf:nil when empty)
ListHead(r, items) == IF Len(items) = 0 THEN RDF_nil ELSE ListNode(r, 1)
ListTriples(r, items) ==
    UNION {{<<ListNode(r, i), RDF_first, items[i]>>,
            <<ListNode(r, i), RDF_rest,
              IF i < Len(items) THEN ListNode(r, i + 1) ELSE RDF_nil>>}
           : i \in 1..Len(items)}

\* the owl:onClass part of a restriction: kind "none" has no owl:onClass,
\* "named" points to the class items[1], "union" to a blank node whose
\* owl:unionOf is the list `items`, "bare" to a blank node without owl:unionOf
OnClassTriples(r, on) ==
    CASE on.kind = "none" -> {}
      [] on.kind = "named" -> {<<r, OWL_onClass, on.items[1]>>}
      [] on.kind = "bare" -> {<<r, OWL_onClass, UnionNode(r)>>}
      [] on.kind = "union" ->
             {<<r, OWL_onClass, UnionNode(r)>>,
              <<UnionNode(r), OWL_unionOf, ListHead(r, on.items)>>}
             \cup ListTriples(r, on.items)

\* the triples of one restriction description
RestrictionTriples(d) ==
    (IF d.typed THEN {<<d.node, RDF_type, OWL_Restriction>>} ELSE {})
    \cup OnClassTriples(d.node, d.on)
    \cup (IF d.onProperty = None THEN {} ELSE {<<d.node, OWL_onProperty, d.onProperty>>})
    \cup (IF d.min = None THEN {} ELSE {<<d.node, OWL_minQualifiedCardinality, d.min>>})
    \cup (IF d.max = None THEN {} ELSE {<<d.node, OWL_maxQualifiedCardinality, d.max>>})

\* an ontology document: the classes typed owl:Class, rdfs:domain and
\* rdfs:range pairs <<property, class>>, rdfs:subClassOf pairs <<sub, super>>
\* and restriction descriptions
OntologyGraph(cls, dom, rng, sub, restr) ==
    {<<k, RDF_type, OWL_Class>> : k \in cls}
    \cup {<<x[1], RDFS_domain, x[2]>> : x \in dom}
    \cup {<<x[1], RDFS_range, x[2]>> : x \in rng}
    \cup {<<x[1], RDFS_subClassOf, x[2]>> : x \in sub}
    \cup UNION {RestrictionTriples(d) : d \in restr}

Named(k) == [kind |-> "named", items |-> <<k>>]
Union(items) == [kind |-> "union", items |-> items]
NoOnClass == [kind |-> "none", items |-> <<>>]
BareOnClass == [kind |-> "bare", items |-> <<>>]

\* the qualified cardinalities a document may state (None: not stated)
Cardinalities == {None} \cup {Literal(v) : v \in 0..MaxCard}

RestrictionDesc(node, typed, on, onProperty, min, max) ==
    [node |-> node, typed |-> typed, on |-> on, onProperty |-> onProperty,
     min |-> min, max |-> max]

\* documents for the query methods: one slice varies the class and property
\* declarations, the other the restriction and the subclass edges
QueryOntologies ==
    {OntologyGraph(cls, {<<P1, d>> : d \in dom} \cup {<<PO, d>> : d \in dom},
                   {<<P1, r>> : r \in rng}, {<<KA, R1>>},
                   {RestrictionDesc(R1, TRUE, Named(KB), P1, None, None)}) :
         cls \in SUBSET {KA, KB, KO, BK},
         dom \in SUBSET {KA, KB},
         rng \in SUBSET {KA, KB, KO}}
    \cup
    {OntologyGraph({KA, KB, KC}, {<<P1, KA>>}, {<<P1, KB>>}, sub,
                   {RestrictionDesc(R1, typed, on, onp, min, None),
                    RestrictionDesc(R2, TRUE, Named(KC), P2, None, Literal(1))}) :
         sub \in SUBSET {<<KA, R1>>, <<KA, R2>>, <<KA, KB>>, <<KB, R1>>},
         typed \in BOOLEAN,
         on \in {NoOnClass, BareOnClass, Named(KB), Union(<<>>),
                 Union(<<KA, KB>>), Union(<<KB, KA>>)},
         onp \in {None, P1},
         min \in Cardinalities}

(* ------------------------------- state -------------------------------- *)
(* graph : the ontology's graph          out  : the Shacl output graph     *)
(* nextB : blank nodes allocated so far  todo : classes not yet shaped     *)
(* pc    : "init" before Shacl(...), "shapes" inside its class loop,       *)
(*         "done" once it returned, "failed" once it raised                *)
(* ret   : the last query call and what it returned                        *)
(* prev  : the sh:or lists of an earlier run of the generator              *)

NoCall == [op |-> "none"]
NoRun == [run |-> "none"]

InitWith(ontologies) ==
    /\ graph \in ontologies
    /\ out = {}
    /\ nextB = 0
    /\ todo = {}
    /\ pc = "init"
    /\ ret = NoCall
    /\ prev = NoRun

(* ---------------------------- query calls ----------------------------- *)

Call(op, a1, a2, ok, value) ==
    [op |-> op, a1 |-> a1, a2 |-> a2, ok |-> ok, value |-> value]

\* a call of Ontology.classes
CallClasses(in_domain_of, in_range_of) ==
    /\ pc = "init"
    /\ ret' = IF ClassesAsserts(in_domain_of, in_range_of)
              THEN Call("classes", in_domain_of, in_range_of, TRUE,
                        classes(graph, in_domain_of, in_range_of))
              ELSE Call("classes", in_domain_of, in_range_of, FALSE, AssertionError)
    /\ UNCHANGED <<graph, out, nextB, todo, pc, prev>>

\* a call of Ontology.properties
CallProperties(with_domain, with_range) ==
    /\ pc = "init"
    /\ ret' = IF PropertiesAsserts(graph, with_domain, with_range)
              THEN Call("properties", with_domain, with_range, TRUE,
                        properties(graph, with_domain, with_range))
              ELSE Call("properties", with_domain, with_range, FALSE, AssertionError)
    /\ UNCHANGED <<graph, out, nextB, todo, pc, prev>>

\* a call of Ontology.restrictions; the set of restriction nodes is iterated
\* in some order
CallRestrictions(for_klass) ==
    /\ pc = "init"
    /\ \E order \in Perms(restriction_uris(graph, for_klass)) :
           ret' = Call("restrictions", for_klass, None, TRUE,
                       restrictions(graph, order))
    /\ UNCHANGED <<graph, out, nextB, todo, pc, prev>>

QueryArgProperties == {None, P1, P2}
QueryArgClasses == {None, KA, KB, KO}

NextQuery ==
    \/ \E d, r \in QueryArgProperties : CallClasses(d, r)
    \/ \E d, r \in QueryArgClasses : CallProperties(d, r)
    \/ \E c \in QueryArgClasses : CallRestrictions(c)

InitQuery == InitWith(QueryOntologies)

SpecQuery == InitQuery /\ [][NextQuery]_vars

(* -------------------------------- Shacl ------------------------------- *)

\* the configuration Shacl(...) is constructed with
ShapeNamespace == URIRef(<<"V", "#">>)
VersionIRI == URIRef(<<"V", "#", "0.0.1">>)
Creator == URIRef(<<"C">>)
Publisher == URIRef(<<"K">>)
DateCreated == None
Today == [date |-> "today"]
Name == [text |-> "RiC-O Validator"]
Description == [text |-> "Unofficial SHACL Shapes Validator"]
VersionInfo == [text |-> "0.0.1: Generated by OntoShacl on commit: HEAD"]

\* str.find(c, from) and str.rfind(c), 1-based; 0 when c does not occur
Find(s, c, from) ==
    IF \E i \in from..Len(s) : s[i] = c
    THEN CHOOSE i \in from..Len(s) : s[i] = c /\ \A j \in from..(i - 1) : s[j] # c
    ELSE 0
RFind(s, c) ==
    IF \E i \in 1..Len(s) : s[i] = c
    THEN CHOOSE i \in 1..Len(s) : s[i] = c /\ \A j \in (i + 1)..Len(s) : s[j] # c
    ELSE 0

\* s cut at index i (the character at i dropped); no cut when i = 0
SplitAt(s, i) ==
    [head |-> IF i > 0 THEN SubSeq(s, 1, i - 1) ELSE s,
     tail |-> IF i > 0 THEN SubSeq(s, i + 1, Len(s)) ELSE <<>>]

\* url.split(c, 1) when c occurs in url
Partition(url, c) == SplitAt(url, Find(url, c, 1))

\* urllib.parse._splitparams: the parameters follow the first ";" of the last
\* path segment
SplitParams(url) ==
    SplitAt(url, IF RFind(url, "/") > 0 THEN Find(url, ";", RFind(url, "/"))
                 ELSE Find(url, ";", 1))

\* urllib.parse.urlparse of an http URI: after scheme and authority (the first
\* token), the fragment is what follows the first "#", the query what follows
\* the first "?" before it, and the rest is the path with its parameters
UrlParseQuery(f, q) ==
    [path |-> SplitParams(q.head).head,
     params |-> SplitParams(q.head).tail,
     query |-> q.tail,
     fragment |-> f.tail]
UrlParseFragment(f) == UrlParseQuery(f, Partition(f.head, "?"))
UrlParse(uri) == UrlParseFragment(Partition(Tail(uri), "#"))

\* path.split("/")[-1]
LastSplit(path) == SubSeq(path, RFind(path, "/") + 1, Len(path))

\* the name compute_shape_uri gives a shape
ShapeName(fragment, path_part) ==
    IF Len(fragment) > 0 THEN fragment \o <<"Shape">> ELSE path_part \o <<"Shape">>

\* Shacl.compute_shape_uri
compute_shape_uri(klass) ==
    LET parse_result == UrlParse(Str(klass))
    IN  URIRef(Str(ShapeNamespace)
               \o ShapeName(parse_result.fragment, LastSplit(parse_result.path)))

(* The generator's working state while a shape is added: g the output graph, *)
(* nb the number of blank nodes allocated, map the prop_path_map of the      *)
(* current add_nodeshape call, ok FALSE once an exception was raised (every  *)
(* later statement is then skipped).                                         *)

\* Graph.add: rdflib asserts that the three terms are terms, so a None raises
Add(st, s, p, o) ==
    IF ~st.ok THEN st
    ELSE IF s = None \/ p = None \/ o = None THEN [st EXCEPT !.ok = FALSE]
    ELSE [st EXCEPT !.g = @ \cup {<<s, p, o>>}]

\* BNode(): the next blank node is BNode(st.nb)
Alloc(st) == [st EXCEPT !.nb = @ + 1]

\* Collection._end: the last cell of the list that starts at `container`
RECURSIVE End(_, _)
End(g, container) ==
    IF Value(g, container, RDF_rest) \in {None, RDF_nil} THEN container
    ELSE End(g, Value(g, container, RDF_rest))

\* Collection.append(item), its last two statements: fill the cell
SetCell(st, cell, item) ==
    Add(Add(st, cell, RDF_first, item), cell, RDF_rest, RDF_nil)

\* Collection.append(item), its Graph.set: the fresh cell `node` follows `end`
Link(st, end, node) ==
    [Alloc(st) EXCEPT !.g = {t \in @ : ~(t[1] = end /\ t[2] = RDF_rest)}
                            \cup {<<end, RDF_rest, node>>}]

\* Collection.append(item) on the list whose last cell is `end`
AppendAt(st, end, item) ==
    IF \E t \in st.g : t[1] = end /\ t[2] = RDF_first
    THEN SetCell(Link(st, end, BNode(st.nb)), BNode(st.nb), item)
    ELSE SetCell(st, end, item)

\* Collection.append(item)
CollectionAppend(st, uri, item) ==
    IF ~st.ok THEN st ELSE AppendAt(st, End(st.g, uri), item)

\* one round of the sh:or loop: a fresh node k with sh:class klass, appended
AppendKlass(st, uri, k, klass) ==
    CollectionAppend(Add(Alloc(st), k, SH_class, klass), uri, k)

\* the loop that gives every class of an sh:or its own constraint node
RECURSIVE AppendKlasses(_, _, _)
AppendKlasses(st, uri, klasses) ==
    IF klasses = <<>> \/ ~st.ok THEN st
    ELSE AppendKlasses(AppendKlass(st, uri, BNode(st.nb), Head(klasses)),
                       uri, Tail(klasses))

\* the sh:or branch of both passes: a fresh Collection `uri`, one node per class
AddOrAt(st, prop_bnode, uri, klasses) ==
    Add(AppendKlasses(Alloc(st), uri, klasses), prop_bnode, SH_or, uri)
AddOr(st, prop_bnode, klasses) == AddOrAt(st, prop_bnode, BNode(st.nb), klasses)

\* AddKlasses as it would be with the sh:or branch taken from one class on
AddKlasses_or_from_one(st, prop_bnode, klasses) ==
    IF Len(klasses) >= 1 THEN AddOr(st, prop_bnode, klasses)
    ELSE st

\* the class constraint either pass attaches for a sequence of classes
AddKlasses(st, prop_bnode, klasses) ==
    IF Len(klasses) > 1 THEN AddOr(st, prop_bnode, klasses)
    ELSE IF Len(klasses) = 1 THEN Add(st, prop_bnode, SH_class, klasses[1])
    ELSE st

\* a fresh property anchor prop_bnode of the shape, with its sh:path
NewAnchor(st, shape_uri, prop_bnode, path) ==
    Add(Add(Alloc(st), shape_uri, SH_property, prop_bnode), prop_bnode, SH_path, path)

\* the domain/range pass for one property whose range classes are `klasses`:
\* the anchor is recorded in prop_path_map
DomainAnchor(st, shape_uri, prop, prop_bnode, klasses) ==
    AddKlasses(NewAnchor([st EXCEPT !.map = (prop :> prop_bnode) @@ @],
                         shape_uri, prop_bnode, prop),
               prop_bnode, klasses)

\* the domain/range pass for one property: skipped without range classes; the
\* set of range classes is iterated in the order of `korder`
DomainProp(g, st, shape_uri, prop, korder) ==
    IF Cardinality(classes(g, None, prop)) < 1 THEN st
    ELSE DomainAnchor(st, shape_uri, prop, BNode(st.nb),
                      SelectSeq(korder, LAMBDA k : k \in classes(g, None, prop)))

\* the domain/range pass of add_nodeshape over the properties `props`
RECURSIVE DomainPass(_, _, _, _, _)
DomainPass(g, st, shape_uri, props, korder) ==
    IF props = <<>> \/ ~st.ok THEN st
    ELSE DomainPass(g, DomainProp(g, st, shape_uri, Head(props), korder),
                    shape_uri, Tail(props), korder)

\* the sh:minCount and sh:maxCount statements of the restriction pass
AddMinCount(st, prop_bnode, restriction) ==
    IF Truthy(restriction.min_cardinality)
    THEN Add(st, prop_bnode, SH_minCount, restriction.min_cardinality)
    ELSE st
AddMaxCount(st, prop_bnode, restriction) ==
    IF Truthy(restriction.max_cardinality)
    THEN Add(st, prop_bnode, SH_maxCount, restriction.max_cardinality)
    ELSE st

\* the restriction pass on the anchor prop_bnode: class constraint, counts
Constrain(st, prop_bnode, restriction) ==
    AddMaxCount(AddMinCount(AddKlasses(st, prop_bnode, restriction.on_klass),
                            prop_bnode, restriction),
                prop_bnode, restriction)

\* the restriction pass for one Restriction: the anchor is the one
\* prop_path_map has for its property, a fresh one otherwise
RestrictionStep(st, shape_uri, restriction) ==
    IF restriction.on_property \in DOMAIN st.map
    THEN Constrain(st, st.map[restriction.on_property], restriction)
    ELSE Constrain(NewAnchor(st, shape_uri, BNode(st.nb), restriction.on_property),
                   BNode(st.nb), restriction)

\* the restriction pass of add_nodeshape over the list `rs` of restrictions
RECURSIVE RestrictionPass(_, _, _)
RestrictionPass(st, shape_uri, rs) ==
    IF rs = <<>> \/ ~st.ok THEN st
    ELSE RestrictionPass(RestrictionStep(st, shape_uri, Head(rs)),
                         shape_uri, Tail(rs))

\* the three triples that open add_nodeshape
ShapeHeader(st, shape_uri, klass) ==
    Add(Add(Add(st, shape_uri, RDF_type, SH_NodeShape),
            shape_uri, RDFS_isDefinedBy, OntIdentifier),
        shape_uri, SH_targetClass, klass)

\* add_nodeshape after the header: properties(with_domain=klass) asserts,
\* then the two passes with a fresh prop_path_map
ShapeBody(g, st, shape_uri, klass, props, korder, rorder) ==
    RestrictionPass(
        IF PropertiesAsserts(g, klass, None)
        THEN DomainPass(g, [st EXCEPT !.map = <<>>], shape_uri, props, korder)
        ELSE [st EXCEPT !.ok = FALSE],
        shape_uri, restrictions(g, rorder))

\* Shacl.add_nodeshape(klass) from the working state st: `props`, `korder`
\* and `rorder` are the orders in which the sets are iterated
AddNodeShapeAt(g, st, shape_uri, klass, props, korder, rorder) ==
    ShapeBody(g, ShapeHeader(st, shape_uri, klass), shape_uri, klass,
              props, korder, rorder)
AddNodeShapeResult(g, st, klass, props, korder, rorder) ==
    AddNodeShapeAt(g, st, compute_shape_uri(klass), klass, props, korder, rorder)

\* the metadata triples Shacl.__init__ writes before the shapes
Metadata ==
    {<<ShapeNamespace, RDF_type, OWL_Ontology>>,
     <<ShapeNamespace, OWL_versionIRI, VersionIRI>>,
     <<ShapeNamespace, OWL_versionInfo, VersionInfo>>,
     <<ShapeNamespace, SDO_creator, Creator>>,
     <<ShapeNamespace, SDO_dateCreated, IF Truthy(DateCreated) THEN DateCreated ELSE Today>>,
     <<ShapeNamespace, SDO_dateModified, Today>>,
     <<ShapeNamespace, SDO_description, Description>>,
     <<ShapeNamespace, SDO_name, Name>>}
    \cup (IF Truthy(Publisher) THEN {<<ShapeNamespace, SDO_publisher, Publisher>>} ELSE {})

\* Shacl.__init__ up to its class loop: a fresh graph with the metadata
Construct ==
    /\ pc = "init"
    /\ out' = Metadata
    /\ nextB' = 0
    /\ todo' = classes(graph, None, None)
    /\ pc' = IF classes(graph, None, None) = {} THEN "done" ELSE "shapes"
    /\ UNCHANGED <<graph, ret, prev>>

\* the state after add_nodeshape(klass) ended in the working state st: the
\* constructor returns after the last class and raises when add_nodeshape did
AfterShape(st, klass) ==
    /\ out' = st.g
    /\ nextB' = st.nb
    /\ todo' = todo \ {klass}
    /\ pc' = IF ~st.ok THEN "failed"
             ELSE IF todo \ {klass} = {} THEN "done" ELSE "shapes"

\* one iteration of the class loop of Shacl.__init__: add_nodeshape(klass)
add_nodeshape(klass) ==
    /\ pc = "shapes"
    /\ klass \in todo
    /\ \E props \in Perms(properties(graph, klass, None)) :
       \E korder \in Perms(UNION {classes(graph, None, p) : p \in properties(graph, klass, None)}) :
       \E rorder \in Perms(restriction_uris(graph, klass)) :
           AfterShape(AddNodeShapeResult(graph,
                          [g |-> out, nb |-> nextB, map |-> <<>>, ok |-> TRUE],
                          klass, props, korder, rorder),
                      klass)
    /\ UNCHANGED <<graph, ret, prev>>

\* documents for the generator: one slice varies the class and property
\* declarations, the other what the restriction R1 states
GenOntologies ==
    {OntologyGraph(cls \cup {KO, BK},
                   {<<P1, d>> : d \in dom}, {<<P1, r>> : r \in rng},
                   {<<a, R1>>} \cup {<<KA, x.node>> : x \in r2},
                   {RestrictionDesc(R1, TRUE, on, onp, card, card)} \cup r2) :
         cls \in {{KA}, {KA, KB}, {KA, KC}, {KA, KB, KC}},
         dom \in {{}, {KA}, {KA, KB}},
         rng \in {{}, {KB}, {KA, KB}, {KB, KO}},
         a \in {KA, KB},
         on \in {Named(KB), Named(KC), Union(<<KA, KB>>)},
         onp \in {P1, P2},
         card \in {None, Literal(1)},
         r2 \in {{}, {RestrictionDesc(R2, TRUE, Named(KA), P1, None, Literal(1))},
                     {RestrictionDesc(R2, TRUE, Named(KA), P2, None, Literal(1))}}}
    \cup
    {OntologyGraph({KA, KB, KC, KO, BK},
                   {<<P1, KA>>}, {<<P1, r>> : r \in rng},
                   {<<a, R1>>} \cup {<<KA, x.node>> : x \in r2},
                   {RestrictionDesc(R1, TRUE, on, onp, min, max)} \cup r2) :
         rng \in {{KB}, {KA, KB}},
         a \in {KA, KB},
         on \in {NoOnClass, BareOnClass, Named(KB), Named(KC), Union(<<KA, KB>>)},
         onp \in {None, P1, P2},
         min \in Cardinalities,
         max \in Cardinalities,
         r2 \in {{}, {RestrictionDesc(R2, TRUE, Named(KA), P1, None, Literal(1))},
                     {RestrictionDesc(R2, TRUE, Named(KA), P2, None, Literal(1))}}}

Init == InitWith(GenOntologies)

Next ==
    \/ Construct
    \/ \E klass \in todo : add_nodeshape(klass)

Spec == Init /\ [][Next]_vars

(* ------------------------ the generator run twice --------------------- *)

\* the class sequences of the sh:or lists of an output graph, each with the
\* shape and the sh:path of its property anchor
KlassSeq(g, items) == [i \in 1..Len(items) |-> Value(g, items[i], SH_class)]
OrLists(g) ==
    UNION {{<<t[1], Value(g, t[3], SH_path), KlassSeq(g, Items(g, o, {}))>> :
                o \in Objects(g, t[3], SH_or)} :
           t \in {u \in g : u[2] = SH_property}}

\* the script is run a second time on the same ontology; what the first run
\* printed is kept, to compare
Rerun ==
    /\ pc = "done"
    /\ prev = NoRun
    /\ prev' = [run |-> "first", lists |-> OrLists(out)]
    /\ out' = {}
    /\ nextB' = 0
    /\ todo' = {}
    /\ pc' = "init"
    /\ UNCHANGED <<graph, ret>>

RerunOntologies ==
    {OntologyGraph(cls, {<<P1, KA>>}, {<<P1, r>> : r \in rng}, {<<KA, R1>>},
                   {RestrictionDesc(R1, TRUE, on, onp, None, Literal(1))}) :
         cls \in {{KA, KB}, {KA, KC}, {KA, KB, KC}},
         rng \in {{KB}, {KA, KB}, {KA, KC}, {KA, KB, KC}},
         on \in {Named(KB), Union(<<KA, KB>>), Union(<<KB, KA>>)},
         onp \in {P1, P2}}

InitRerun == InitWith(RerunOntologies)

NextRerun ==
    \/ Construct
    \/ \E klass \in todo : add_nodeshape(klass)
    \/ Rerun

SpecRerun == InitRerun /\ [][NextRerun]_vars

(* ------------------------- compute_shape_uri -------------------------- *)

\* the characters of the class URIs given to compute_shape_uri
UriChars == {"/", "#", "a", "b"}

\* http://ex followed by at most MaxTail characters, the first of which ends
\* the authority
UriInputs ==
    {URIRef(<<"S">> \o t) :
         t \in {u \in UNION {[1..n -> UriChars] : n \in 0..MaxTail} :
                    Len(u) = 0 \/ u[1] \in {"/", "#"}}}

\* a call of Shacl.compute_shape_uri on a constructed generator
CallComputeShapeUri(klass) ==
    /\ pc = "done"
    /\ ret' = Call("compute_shape_uri", klass, None, TRUE, compute_shape_uri(klass))
    /\ UNCHANGED <<graph, out, nextB, todo, pc, prev>>

UriOntologies ==
    {OntologyGraph({KA, KC}, {<<P1, KA>>}, {<<P1, KC>>}, {}, {})}

InitUri == InitWith(UriOntologies)

NextUri ==
    \/ Construct
    \/ \E klass \in todo : add_nodeshape(klass)
    \/ \E klass \in UriInputs : CallComputeShapeUri(klass)

SpecUri == InitUri /\ [][NextUri]_vars

(* ------------------------------- claims ------------------------------- *)

\* reading an output graph: its node shapes, and the property anchors of a
\* shape whose sh:path is P
Shapes(g) == {t[1] : t \in {u \in g : u[2] = RDF_type /\ u[3] = SH_NodeShape}}
AnchorsFor(g, shape, P) ==
    {t[3] : t \in {u \in g : u[1] = shape /\ u[2] = SH_property
                                /\ <<u[3], SH_path, P>> \in g}}
\* the restriction nodes attached to class C by a direct rdfs:subClassOf
DirectRestrictions(g, C) ==
    {t[3] : t \in {u \in g : u[1] = C /\ u[2] = RDFS_subClassOf
                                /\ <<u[3], RDF_type, OWL_Restriction>> \in g}}
\* the ontology's classes by the spec's words: typed owl:Class, not blank,
\* identifier within the namespace
NamespaceClasses(g) ==
    {t[1] : t \in {u \in g : /\ u[2] = RDF_type /\ u[3] = OWL_Class
                             /\ ~IsBNode(u[1])
                             /\ Len(Str(u[1])) >= Len(Str(OntIdentifier))
                             /\ SubSeq(Str(u[1]), 1, Len(Str(OntIdentifier)))
                                    = Str(OntIdentifier)}}

\* C1: after generation the NodeShapes correspond one to one to classes():
\* every class is the sh:targetClass of exactly one NodeShape, which is
\* compute_shape_uri of the class, no NodeShape targets two classes, and
\* there are as many NodeShapes as classes.
C1_OneShapePerClass ==
    pc = "done" =>
        /\ \A C \in classes(graph, None, None) :
               /\ Cardinality({sh \in Shapes(out) : <<sh, SH_targetClass, C>> \in out}) = 1
               /\ <<compute_shape_uri(C), SH_targetClass, C>> \in out
        /\ \A sh \in Shapes(out) : Cardinality(Objects(out, sh, SH_targetClass)) <= 1
        /\ Cardinality(Shapes(out)) = Cardinality(classes(graph, None, None))

\* the shape name the spec words give a URI tail: the fragment when there is
\* one, otherwise the last path segment before the final "/"
C2_Fragment(t) ==
    IF \E i \in 1..Len(t) : t[i] = "#"
    THEN SubSeq(t, 1 + CHOOSE i \in 1..Len(t) :
                         t[i] = "#" /\ \A j \in 1..(i - 1) : t[j] # "#", Len(t))
    ELSE <<>>
C2_Path(t) == SubSeq(t, 1, Len(t) - Len(C2_Fragment(t))
                            - (IF \E i \in 1..Len(t) : t[i] = "#" THEN 1 ELSE 0))
C2_DropFinalSlash(p) ==
    IF Len(p) > 0 /\ p[Len(p)] = "/" THEN SubSeq(p, 1, Len(p) - 1) ELSE p
C2_LastSegment(p) ==
    IF \E i \in 1..Len(p) : p[i] = "/"
    THEN SubSeq(p, 1 + CHOOSE i \in 1..Len(p) :
                         p[i] = "/" /\ \A j \in (i + 1)..Len(p) : p[j] # "/", Len(p))
    ELSE p
C2_Name(t) ==
    IF Len(C2_Fragment(t)) > 0 THEN C2_Fragment(t)
    ELSE C2_LastSegment(C2_DropFinalSlash(C2_Path(t)))

\* C2: compute_shape_uri never fails and returns the output namespace joined
\* with "{fragment}Shape" when the class URI has a non-empty fragment, and
\* otherwise with "{segment}Shape", segment being the last path segment
\* before the final "/" (so .../Foo/ is named FooShape).
C2_ShapeUriNaming ==
    ret.op = "compute_shape_uri" =>
        /\ ret.ok
        /\ ret.value = URIRef(Str(ShapeNamespace) \o C2_Name(Tail(Str(ret.a1)))
                              \o <<"Shape">>)

\* C's shape has an anchor for P with exactly the sh:class values Rs, no sh:or
C3_PlainAnchor(C, P, Rs) ==
    \E a \in AnchorsFor(out, compute_shape_uri(C), P) :
        /\ Objects(out, a, SH_class) = Rs
        /\ Objects(out, a, SH_or) = {}
\* every direct restriction of C on P has no class list or exactly the list (R)
C3_NoOtherKlass(C, P, Rs) ==
    \A n \in DirectRestrictions(graph, C) :
        <<n, OWL_onProperty, P>> \in graph =>
            \/ OnKlass(graph, n) = <<>>
            \/ {OnKlass(graph, n)[i] : i \in 1..Len(OnKlass(graph, n))} = Rs
               /\ Len(OnKlass(graph, n)) = 1

\* C3 as claimed: for every property P of class C with a single range class
\* R, after generation the anchor for P in C's shape has exactly one sh:class
\* triple, R, and no sh:or triple, whatever restrictions C has on P.
C3_Original ==
    pc = "done" =>
        \A C \in classes(graph, None, None) :
            \A P \in properties(graph, C, None) :
                Cardinality(classes(graph, None, P)) = 1
                    => C3_PlainAnchor(C, P, classes(graph, None, P))

\* C3 as amended: the same, provided every direct restriction of C on P has
\* an empty class list or exactly the class list (R); any other restriction
\* on P adds its own sh:class or sh:or to the same anchor.
C3_SingleRangeAnchor ==
    pc = "done" =>
        \A C \in classes(graph, None, None) :
            \A P \in properties(graph, C, None) :
                (/\ Cardinality(classes(graph, None, P)) = 1
                 /\ C3_NoOtherKlass(C, P, classes(graph, None, P)))
                    => C3_PlainAnchor(C, P, classes(graph, None, P))

\* a finished run where class KA has property P1 with the single range class
\* KB and a restriction on P1 whose class is KB too: one sh:class, with counts
C3_Witness ==
    /\ pc = "done"
    /\ P1 \in properties(graph, KA, None)
    /\ classes(graph, None, P1) = {KB}
    /\ R1 \in DirectRestrictions(graph, KA)
    /\ <<R1, OWL_onProperty, P1>> \in graph
    /\ OnKlass(graph, R1) = <<KB>>
    /\ \E a \in AnchorsFor(out, compute_shape_uri(KA), P1) :
           /\ Objects(out, a, SH_class) = {KB}
           /\ Objects(out, a, SH_or) = {}
           /\ <<a, SH_minCount, Literal(1)>> \in out

\* the sh:or of anchor a lists exactly the classes Rs, one node per class
C4_OrOver(a, Rs) ==
    \E l \in Objects(out, a, SH_or) :
        /\ Len(Items(out, l, {})) = Cardinality(Rs)
        /\ \A i \in 1..Len(Items(out, l, {})) :
               Cardinality(Objects(out, Items(out, l, {})[i], SH_class)) = 1
        /\ {KlassSeq(out, Items(out, l, {}))[i] : i \in 1..Len(Items(out, l, {}))} = Rs

\* C4: for every property P of class C with N > 1 range classes the anchor
\* for P in C's shape has an sh:or over a list of exactly N nodes, each with
\* one sh:class, the N values being the range set; and a second run on the
\* same ontology produces the same list orders as the first.
C4_OrListDeterministic ==
    pc = "done" =>
        /\ \A C \in classes(graph, None, None) :
               \A P \in properties(graph, C, None) :
                   Cardinality(classes(graph, None, P)) > 1 =>
                       \E a \in AnchorsFor(out, compute_shape_uri(C), P) :
                           C4_OrOver(a, classes(graph, None, P))
        /\ prev # NoRun => OrLists(out) = prev.lists

\* the values sh:minCount / sh:maxCount (count) should carry on the anchors
\* for the property of restriction n of class C, and the anchors that carry v
C5_Stated(n, card) == {t[3] : t \in {u \in graph : u[1] = n /\ u[2] = card}}
C5_Emitted(C, n, count, v) ==
    \E P \in Objects(graph, n, OWL_onProperty) :
        \E a \in AnchorsFor(out, compute_shape_uri(C), P) : <<a, count, v>> \in out
C5_Justified(Sh, a, count, card, v) ==
    \E C \in classes(graph, None, None) :
        /\ compute_shape_uri(C) = Sh
        /\ \E n \in DirectRestrictions(graph, C) :
               /\ <<n, card, v>> \in graph
               /\ \E P \in Objects(graph, n, OWL_onProperty) : <<a, SH_path, P>> \in out

\* C5: sh:minCount (sh:maxCount) is on a restriction's property anchor exactly
\* when the source graph has owl:minQualifiedCardinality
\* (owl:maxQualifiedCardinality) on the restriction node, with the same
\* value; a stated cardinality of 0 is emitted as 0.
C5_CountsMirrorSource ==
    pc = "done" =>
        /\ \A C \in classes(graph, None, None) :
               \A n \in DirectRestrictions(graph, C) :
                   /\ \A v \in C5_Stated(n, OWL_minQualifiedCardinality) :
                          C5_Emitted(C, n, SH_minCount, v)
                   /\ \A v \in C5_Stated(n, OWL_maxQualifiedCardinality) :
                          C5_Emitted(C, n, SH_maxCount, v)
        /\ \A t \in out :
               /\ t[2] = SH_minCount =>
                      \E u \in out : /\ u[2] = SH_property /\ u[3] = t[1]
                                     /\ C5_Justified(u[1], t[1], SH_minCount,
                                                     OWL_minQualifiedCardinality, t[3])
               /\ t[2] = SH_maxCount =>
                      \E u \in out : /\ u[2] = SH_property /\ u[3] = t[1]
                                     /\ C5_Justified(u[1], t[1], SH_maxCount,
                                                     OWL_maxQualifiedCardinality, t[3])

\* class C is a direct subclass of a restriction on P with both qualified
\* cardinalities 1
C6_ExactlyOne(C, P) ==
    \E n \in DirectRestrictions(graph, C) :
        /\ <<n, OWL_onProperty, P>> \in graph
        /\ <<n, OWL_minQualifiedCardinality, Literal(1)>> \in graph
        /\ <<n, OWL_maxQualifiedCardinality, Literal(1)>> \in graph
\* anchor a carries the class constraint the range classes Rs give
C6_RangeConstraint(a, Rs) ==
    IF Cardinality(Rs) = 1 THEN Rs \subseteq Objects(out, a, SH_class)
    ELSE C4_OrOver(a, Rs)

\* C6: when P has rdfs:domain C and a non-empty range-class set, and C is a
\* subclass of a restriction on P with min and max qualified cardinality 1,
\* C's shape has exactly one anchor with sh:path P, and it carries the range
\* class constraint together with sh:minCount 1 and sh:maxCount 1.
C6_OneSharedAnchor ==
    pc = "done" =>
        \A C \in classes(graph, None, None) :
            \A P \in properties(graph, C, None) :
                (classes(graph, None, P) # {} /\ C6_ExactlyOne(C, P)) =>
                    /\ Cardinality(AnchorsFor(out, compute_shape_uri(C), P)) = 1
                    /\ \A a \in AnchorsFor(out, compute_shape_uri(C), P) :
                           /\ C6_RangeConstraint(a, classes(graph, None, P))
                           /\ <<a, SH_minCount, Literal(1)>> \in out
                           /\ <<a, SH_maxCount, Literal(1)>> \in out

\* C7: when a restriction attached to a class lacks owl:onProperty the
\* generation does not complete, and neither at the failure nor in a
\* completed output is there an sh:property anchor without an sh:path.
C7_NoPartialAnchor ==
    /\ pc = "done" =>
           \A C \in classes(graph, None, None) :
               \A n \in DirectRestrictions(graph, C) :
                   Objects(graph, n, OWL_onProperty) # {}
    /\ pc \in {"failed", "done"} =>
           \A t \in out : t[2] = SH_property => Objects(out, t[3], SH_path) # {}

\* C8: every Restriction that restrictions(forClass) returns has a non-empty
\* on_klass holding only class identifiers, never a null entry.
C8_OnKlassNonEmpty ==
    ret.op = "restrictions" =>
        \A i \in 1..Len(ret.value) :
            /\ Len(ret.value[i].on_klass) > 0
            /\ \A j \in 1..Len(ret.value[i].on_klass) :
                   /\ ret.value[i].on_klass[j] # None
                   /\ IsURIRef(ret.value[i].on_klass[j])

RECURSIVE C10_IsList(_, _, _)
C10_IsList(g, head, s) ==
    IF s = <<>> THEN head = RDF_nil
    ELSE /\ <<head, RDF_first, Head(s)>> \in g
         /\ \E nx \in Objects(g, head, RDF_rest) : C10_IsList(g, nx, Tail(s))
\* the class lists a restriction node's owl:onClass stands for: the members of
\* the owl:unionOf list of a blank node, the value itself otherwise
C10_KlassLists(g, n) ==
    UNION {IF IsBNode(o)
           THEN {s \in UNION {[1..k -> {KA, KB, KC}] : k \in 0..2} :
                     \E h \in Objects(g, o, OWL_unionOf) : C10_IsList(g, h, s)}
           ELSE {<<o>>} : o \in Objects(g, n, OWL_onClass)}
\* Restriction r is the one of restriction node n
C10_IsOf(g, r, n) ==
    /\ r.on_property \in (IF Objects(g, n, OWL_onProperty) = {} THEN {None}
                          ELSE Objects(g, n, OWL_onProperty))
    /\ C10_KlassLists(g, n) # {} => r.on_klass \in C10_KlassLists(g, n)

\* C10: restrictions(forClass) returns one Restriction for exactly the nodes
\* typed owl:Restriction that are direct rdfs:subClassOf objects of forClass
\* (none reached through a superclass), each with on_klass the ordered
\* owl:unionOf list when owl:onClass is a blank node and the singleton of the
\* owl:onClass value otherwise.
C10_DirectRestrictions ==
    (ret.op = "restrictions" /\ ret.a1 # None) =>
        \E order \in Perms(DirectRestrictions(graph, ret.a1)) :
            /\ Len(ret.value) = Len(order)
            /\ \A i \in 1..Len(order) : C10_IsOf(graph, ret.value[i], order[i])

\* restrictions(KA) returned only the restriction R2 that KA is a direct
\* subclass of, and not R1 (a union of KB and KA), which hangs off KA's
\* superclass KB
C10_Witness ==
    /\ ret.op = "restrictions"
    /\ ret.a1 = KA
    /\ <<KA, RDFS_subClassOf, KB>> \in graph
    /\ <<KB, RDFS_subClassOf, R1>> \in graph
    /\ <<KA, RDFS_subClassOf, R1>> \notin graph
    /\ <<R1, RDF_type, OWL_Restriction>> \in graph
    /\ OnKlass(graph, R1) = <<KB, KA>>
    /\ Len(ret.value) = 1
    /\ ret.value[1].on_klass = <<KC>>

\* the last query call was rejected: it raised and returned no result
C11_Rejected == ~ret.ok /\ ret.value = AssertionError
\* the last query call returned a result, a set of identifiers of the graph
C11_Answered ==
    /\ ret.ok
    /\ ret.value \in SUBSET {t[1] : t \in graph}
\* the argument preconditions of the last call of classes() are violated
C11_ClassesViolation == ret.a1 # None /\ ret.a2 # None
\* the argument preconditions of the last call of properties() are violated
C11_PropertiesViolation ==
    \/ ret.a1 = None /\ ret.a2 = None
    \/ ret.a1 # None /\ ret.a2 # None
    \/ ret.a1 # None /\ ret.a2 = None /\ ret.a1 \notin NamespaceClasses(graph)
    \/ ret.a1 = None /\ ret.a2 # None /\ ret.a2 \notin NamespaceClasses(graph)
\* a rejected call of classes() or properties()
C11_FailingCall == ret'.op \in {"classes", "properties"} /\ ~ret'.ok

C12_Paths(g) == {t[3] : t \in {u \in g : u[2] = SH_path}}
\* the direct restrictions of class C that are on property P
C12_RestrictionsOn(C, P) ==
    {n \in DirectRestrictions(graph, C) : <<n, OWL_onProperty, P>> \in graph}

\* C12: in the completed output graph every NodeShape has at most one
\* sh:property anchor per sh:path value; in particular a class with two or
\* more direct restrictions on a property P that the domain/range pass did
\* not cover has one anchor with path P in its shape, shared by all of them.
C12_OneAnchorPerPath ==
    pc = "done" =>
        /\ \A shape \in Shapes(out) : \A P \in C12_Paths(out) :
               Cardinality(AnchorsFor(out, shape, P)) <= 1
        /\ \A C \in classes(graph, None, None) : \A P \in {P1, P2} :
               (/\ Cardinality(C12_RestrictionsOn(C, P)) >= 2
                /\ P \notin properties(graph, C, None)) =>
                   Cardinality(AnchorsFor(out, compute_shape_uri(C), P)) = 1

====
